---- MODULE Spec2Model ----
(***************************************************************************)
(* Model of deploy_vms.py: the run of main() against a Proxmox cluster.    *)
(* The remote cluster (zones, vnets, pools, VMs of the node) is the state; *)
(* every API call of the script is one step whose outcome (success or an  *)
(* exception raised by proxmoxer) is chosen nondeterministically.          *)
(* Several runs of the script follow one another on the same cluster.      *)
(***************************************************************************)
EXTENDS Integers, Sequences, FiniteSets, TLC

\* ---------------------------------------------------------------- bounds
MaxTemplates == 2
MaxRuns == 2
\* API failures injected in a behaviour of several runs
MaxFaults == 2

\* ------------------------------------------------------- inputs of a run
StartingId == 300
Templates == <<950, 951, 952, 953>>
Zone == "cszone"
OtherZone == "otherzone"
VNet == "csvnet03"
Pool == "CS03"

\* ids of the node's VMs that the model tracks
VMIds == StartingId .. (StartingId + MaxTemplates - 1)

NoVM == [present |-> FALSE]
\* a VM that was on the node before any run of the script
ForeignVM == [present |-> TRUE, template |-> 0, name |-> <<"foreign">>,
              pool |-> "", net0 |-> <<>>, running |-> FALSE]

VARIABLES
  zones,          \* cluster.sdn.zones: set of zone names
  vnets,          \* cluster.sdn.vnets: set of [vnet, zone]
  pools,          \* pools: set of pool ids
  vms,            \* nodes(node).qemu: id -> NoVM or a VM record
  args,           \* parsed command line of the current run
  pc,             \* position of the current run in main()
  i,              \* loop index of the deploy loop / the undo loop
  template_name,  \* local of deploy_vm
  calls,          \* API calls issued by the current run, in order
  start,          \* remote state when the current run started
  prev,           \* summary of the previous run
  run,            \* number of runs started
  budget          \* API failures the cluster may still answer with (-1: no limit)

vars == <<zones, vnets, pools, vms, args, pc, i, template_name, calls, start, prev, run, budget>>

remote == <<zones, vnets, pools, vms>>

\* ------------------------------------------------------------- API calls
Call(op, vmid, tmpl, name, ok) ==
  [op |-> op, vmid |-> vmid, tmpl |-> tmpl, name |-> name, ok |-> ok]

Log(op, vmid, tmpl, name, ok) == Append(calls, Call(op, vmid, tmpl, name, ok))

\* outcomes of an API call: it returns (TRUE) or raises (FALSE)
Outcomes == IF budget = 0 THEN {TRUE} ELSE BOOLEAN

Spend(ok) == IF ok \/ budget < 0 THEN budget ELSE budget - 1

\* --------------------------------------------------- the pure functions
\* variant: the listing is compared with the wrong name
check_zone_exists_wrongkey(zs, zone_name) == \E z \in zs : z = VNet

check_zone_exists(zs, zone_name) == \E z \in zs : z = zone_name

\* variant: the vnet is matched on its name alone
check_network_exists_anyzone(vs, zone, vnet_name) == \E v \in vs : v.vnet = vnet_name

check_network_exists(vs, zone, vnet_name) ==
  \E v \in vs : v.vnet = vnet_name /\ v.zone = zone

\* variant: an error of the pool listing counts as present
check_resource_pool_exists_present(ok, pool_ids, pool_id) ==
  IF ok THEN pool_id \in pool_ids ELSE TRUE

\* the try/except of check_resource_pool_exists: an error counts as absent
check_resource_pool_exists(ok, pool_ids, pool_id) ==
  IF ok THEN pool_id \in pool_ids ELSE FALSE

vm_range(starting_id, num_vms) == starting_id .. (starting_id + num_vms - 1)

\* variant: in use only if every requested id is taken
\* variant: only the first requested id is looked up
check_vms_in_use_first(existing_vms, vm_ids) ==
  \E vm_id \in vm_ids : vm_id \in existing_vms /\ \A other \in vm_ids : vm_id <= other

check_vms_in_use_all(existing_vms, vm_ids) == \A vm_id \in vm_ids : vm_id \in existing_vms

check_vms_in_use(existing_vms, vm_ids) == \E vm_id \in vm_ids : vm_id \in existing_vms

\* outcome of config.get(): "ok" (has a name), "noname" (no 'name' key), "err"
TemplateNames == [t \in {Templates[k] : k \in 1..Len(Templates)} |-> <<"tpl", t>>]

\* variant: the fallback name lacks the template id
get_template_name_noid(outcome, template_id) ==
  IF outcome = "ok" THEN TemplateNames[template_id] ELSE <<"template-">>

get_template_name(outcome, template_id) ==
  IF outcome = "ok" THEN TemplateNames[template_id] ELSE <<"template-", template_id>>

new_vm_id(starting_id, idx) == starting_id + idx

\* variant: net0 bridged to the zone instead of the vnet
Net0_zone(vnet_name) == <<"bridge=", Zone, ",model=virtio">>

Net0(vnet_name) == <<"bridge=", vnet_name, ",model=virtio">>

\* variant: the vnet is looked up by the wrong field
delete_vnet_wrongkey(vs, vnet_name) == {v \in vs : v.zone # vnet_name}

delete_vnet(vs, vnet_name) == {v \in vs : v.vnet # vnet_name}

\* ------------------------------------------------ control flow of main()
AfterZoneCheck(ok, exists) ==
  IF ~ok THEN "aborted" ELSE IF exists THEN "vnet_check" ELSE "zone_create"

\* variant: the error of the creation call is swallowed
AfterCreateZone_continue(ok) == "zone_apply"

AfterCreateZone(ok) == IF ok THEN "zone_apply" ELSE "aborted"

\* variant: the error of the apply call is swallowed
AfterZoneApply_continue(ok) == "vnet_check"

AfterZoneApply(ok) == IF ok THEN "vnet_check" ELSE "aborted"

AfterVNetCheck(ok, exists) ==
  IF ~ok THEN "aborted" ELSE IF exists THEN "pool_check" ELSE "vnet_create"

AfterCreateVNet(ok) == IF ok THEN "vnet_apply" ELSE "aborted"

AfterVNetApply(ok) == IF ok THEN "pool_check" ELSE "aborted"

\* line 223: undo or deploy, after the three ensure-steps
ModeSelect(undo) == IF undo THEN "undo_vm" ELSE "vm_check"

AfterPoolCheck(exists, undo) == IF exists THEN ModeSelect(undo) ELSE "pool_create"

\* variant: the error of the pool creation is swallowed
AfterCreatePool_continue(ok, undo) == ModeSelect(undo)

AfterCreatePool(ok, undo) == IF ok THEN ModeSelect(undo) ELSE "aborted"

\* variant: the result of the collision check is ignored
AfterVMCheck_ignore(ok, in_use) == IF ~ok THEN "aborted" ELSE "deploy_name"

AfterVMCheck(ok, in_use) ==
  IF ~ok THEN "aborted" ELSE IF in_use THEN "collision" ELSE "deploy_name"

\* deploy_vm returns (normally or through its except clause): next template
NextVM(idx, n) == IF idx + 1 < n THEN "deploy_name" ELSE "done"

\* variant: a failed clone propagates out of deploy_vm
AfterClone_abort(ok, idx, n) == IF ok THEN "deploy_net" ELSE "aborted"

AfterClone(ok, idx, n) == IF ok THEN "deploy_net" ELSE NextVM(idx, n)

\* variant: the VM is started whether or not power-on was requested
AfterNet_start(ok, power_on, idx, n) == IF ok THEN "deploy_start" ELSE NextVM(idx, n)

AfterNet(ok, power_on, idx, n) ==
  IF ok /\ power_on THEN "deploy_start" ELSE NextVM(idx, n)

AfterDeleteVM(ok, idx, n) == IF idx + 1 < n THEN "undo_vm" ELSE "undo_vnet"

\* variant: a failed vnet deletion ends undo_changes
\* variant: a failed vnet deletion is tried again
AfterDeleteVNet_retry(ok) == IF ok THEN "undo_apply" ELSE "undo_vnet"

AfterDeleteVNet_stop(ok) == IF ok THEN "undo_apply" ELSE "done"

AfterDeleteVNet(ok) == IF ok THEN "undo_apply" ELSE "undo_pool"

\* variant: a failed apply ends undo_changes
AfterUndoApply_stop(ok) == IF ok THEN "undo_pool" ELSE "done"

AfterUndoApply(ok) == "undo_pool"

AfterDeletePool(ok) == "done"

Final == {"done", "aborted", "collision"}

NextIndex(nextpc, idx) == IF nextpc \in {"deploy_name", "undo_vm"} THEN idx + 1 ELSE idx

\* ----------------------------------------------------------------- Init
NoPrev == [ran |-> FALSE]

NoArgs == [undo |-> FALSE, num |-> 1, power_on |-> FALSE]

InitCluster ==
  /\ zones \in {{OtherZone}, {Zone, OtherZone}}
  /\ vnets \in {vs \in SUBSET [vnet : {VNet}, zone : zones] : Cardinality(vs) <= 1}
  /\ pools \in SUBSET {Pool}
  /\ vms \in [VMIds -> {NoVM, ForeignVM}]
  /\ args = NoArgs
  /\ pc = "start"
  /\ i = 0
  /\ template_name = <<>>
  /\ calls = <<>>
  /\ start = [zones |-> zones, vnets |-> vnets, pools |-> pools, vms |-> vms]
  /\ prev = NoPrev
  /\ run = 0

\* one run, any failure pattern
Init == InitCluster /\ budget = -1

\* several runs, a bounded number of failures
InitRuns == InitCluster /\ budget = MaxFaults

Failed(cs) == \E k \in 1..Len(cs) : ~cs[k].ok

\* zone, vnet, pool and the VM ids of the range are all absent in remote state r
Fresh(r, num) ==
  /\ Zone \notin r.zones
  /\ ~check_network_exists(r.vnets, Zone, VNet)
  /\ Pool \notin r.pools
  /\ \A id \in vm_range(StartingId, num) : ~r.vms[id].present

Count(cs, op) == Cardinality({k \in 1..Len(cs) : cs[k].op = op})

\* ------------------------------------------------------------- actions
\* main() up to line 209: the script is invoked; the command line is parsed
StartRun ==
  /\ pc = "start"
  /\ \E undo \in BOOLEAN, num \in 1..MaxTemplates, power_on \in BOOLEAN :
       args' = [undo |-> undo, num |-> num, power_on |-> power_on]
  /\ pc' = "zone_check"
  /\ run' = run + 1
  /\ UNCHANGED <<remote, i, template_name, calls, start, prev, budget>>

\* the script is invoked again on the same cluster, with the same resources,
\* templates and ids, in either mode
Rerun ==
  /\ pc \in Final
  /\ run < MaxRuns
  /\ \E undo \in BOOLEAN : args' = [args EXCEPT !.undo = undo]
  /\ pc' = "zone_check"
  /\ i' = 0
  /\ template_name' = <<>>
  /\ calls' = <<>>
  /\ start' = [zones |-> zones, vnets |-> vnets, pools |-> pools, vms |-> vms]
  /\ prev' = [ran |-> TRUE, undo |-> args.undo, pc |-> pc,
              failed |-> Failed(calls),
              fresh |-> Fresh(start, args.num),
              createZone |-> Count(calls, "createZone"),
              createVNet |-> Count(calls, "createVNet"),
              createPool |-> Count(calls, "createPool")]
  /\ run' = run + 1
  /\ UNCHANGED <<remote, budget>>

ZoneCheck ==
  /\ pc = "zone_check"
  /\ \E ok \in Outcomes :
       /\ budget' = Spend(ok)
       /\ calls' = Log("listZones", 0, 0, <<>>, ok)
       /\ pc' = AfterZoneCheck(ok, check_zone_exists(zones, Zone))
  /\ UNCHANGED <<remote, args, i, template_name, start, prev, run>>

CreateZone ==
  /\ pc = "zone_create"
  /\ \E ok \in Outcomes :
       /\ budget' = Spend(ok)
       /\ calls' = Log("createZone", 0, 0, <<>>, ok)
       /\ zones' = IF ok THEN zones \cup {Zone} ELSE zones
       /\ pc' = AfterCreateZone(ok)
  /\ UNCHANGED <<vnets, pools, vms, args, i, template_name, start, prev, run>>

ZoneApply ==
  /\ pc = "zone_apply"
  /\ \E ok \in Outcomes :
       /\ budget' = Spend(ok)
       /\ calls' = Log("applyNetworkConfig", 0, 0, <<>>, ok)
       /\ pc' = AfterZoneApply(ok)
  /\ UNCHANGED <<remote, args, i, template_name, start, prev, run>>

VNetCheck ==
  /\ pc = "vnet_check"
  /\ \E ok \in Outcomes :
       /\ budget' = Spend(ok)
       /\ calls' = Log("listVNets", 0, 0, <<>>, ok)
       /\ pc' = AfterVNetCheck(ok, check_network_exists(vnets, Zone, VNet))
  /\ UNCHANGED <<remote, args, i, template_name, start, prev, run>>

CreateVNet ==
  /\ pc = "vnet_create"
  /\ \E ok \in Outcomes :
       /\ budget' = Spend(ok)
       /\ calls' = Log("createVNet", 0, 0, <<VNet, Zone>>, ok)
       /\ vnets' = IF ok THEN vnets \cup {[vnet |-> VNet, zone |-> Zone]} ELSE vnets
       /\ pc' = AfterCreateVNet(ok)
  /\ UNCHANGED <<zones, pools, vms, args, i, template_name, start, prev, run>>

VNetApply ==
  /\ pc = "vnet_apply"
  /\ \E ok \in Outcomes :
       /\ budget' = Spend(ok)
       /\ calls' = Log("applyNetworkConfig", 0, 0, <<>>, ok)
       /\ pc' = AfterVNetApply(ok)
  /\ UNCHANGED <<remote, args, i, template_name, start, prev, run>>

PoolCheck ==
  /\ pc = "pool_check"
  /\ \E ok \in Outcomes :
       /\ budget' = Spend(ok)
       /\ calls' = Log("listPools", 0, 0, <<>>, ok)
       /\ pc' = AfterPoolCheck(check_resource_pool_exists(ok, pools, Pool), args.undo)
  /\ UNCHANGED <<remote, args, i, template_name, start, prev, run>>

CreatePool ==
  /\ pc = "pool_create"
  /\ \E ok \in Outcomes :
       /\ budget' = Spend(ok)
       /\ calls' = Log("createPool", 0, 0, <<>>, ok)
       /\ pools' = IF ok THEN pools \cup {Pool} ELSE pools
       /\ pc' = AfterCreatePool(ok, args.undo)
  /\ UNCHANGED <<zones, vnets, vms, args, i, template_name, start, prev, run>>

ExistingVMs == {id \in DOMAIN vms : vms[id].present}

VMCheck ==
  /\ pc = "vm_check"
  /\ \E ok \in Outcomes :
       /\ budget' = Spend(ok)
       /\ calls' = Log("listVMs", 0, 0, <<>>, ok)
       /\ pc' = AfterVMCheck(ok, check_vms_in_use(ExistingVMs, vm_range(StartingId, args.num)))
  /\ UNCHANGED <<remote, args, i, template_name, start, prev, run>>

DeployName ==
  /\ pc = "deploy_name"
  /\ \E outcome \in {"ok", "noname"} \cup {o \in {"err"} : FALSE \in Outcomes} :
       /\ budget' = Spend(outcome # "err")
       /\ calls' = Log("getVMConfig", 0, Templates[i + 1], <<>>, outcome # "err")
       /\ template_name' = get_template_name(outcome, Templates[i + 1])
  /\ pc' = "deploy_clone"
  /\ UNCHANGED <<remote, args, i, start, prev, run>>

DeployClone ==
  /\ pc = "deploy_clone"
  /\ LET id == new_vm_id(StartingId, i) IN
     \E ok \in Outcomes :
       /\ budget' = Spend(ok)
       /\ calls' = Log("cloneVM", id, Templates[i + 1], template_name, ok)
       /\ vms' = IF ok
                 THEN [vms EXCEPT ![id] = [present |-> TRUE, template |-> Templates[i + 1],
                                           name |-> template_name, pool |-> Pool,
                                           net0 |-> <<>>, running |-> FALSE]]
                 ELSE vms
       /\ pc' = AfterClone(ok, i, args.num)
       /\ i' = NextIndex(pc', i)
  /\ UNCHANGED <<zones, vnets, pools, args, template_name, start, prev, run>>

DeployNet ==
  /\ pc = "deploy_net"
  /\ LET id == new_vm_id(StartingId, i) IN
     \E ok \in Outcomes :
       /\ budget' = Spend(ok)
       /\ calls' = Log("setVMNetworkDevice", id, 0, Net0(VNet), ok)
       /\ vms' = IF ok THEN [vms EXCEPT ![id].net0 = Net0(VNet)] ELSE vms
       /\ pc' = AfterNet(ok, args.power_on, i, args.num)
       /\ i' = NextIndex(pc', i)
  /\ UNCHANGED <<zones, vnets, pools, args, template_name, start, prev, run>>

DeployStart ==
  /\ pc = "deploy_start"
  /\ LET id == new_vm_id(StartingId, i) IN
     \E ok \in Outcomes :
       /\ budget' = Spend(ok)
       /\ calls' = Log("startVM", id, 0, <<>>, ok)
       /\ vms' = IF ok THEN [vms EXCEPT ![id].running = TRUE] ELSE vms
       /\ pc' = NextVM(i, args.num)
       /\ i' = NextIndex(pc', i)
  /\ UNCHANGED <<zones, vnets, pools, args, template_name, start, prev, run>>

UndoVM ==
  /\ pc = "undo_vm"
  /\ LET id == new_vm_id(StartingId, i) IN
     \E ok \in Outcomes :
       /\ budget' = Spend(ok)
       /\ calls' = Log("deleteVM", id, 0, <<>>, ok)
       /\ vms' = IF ok THEN [vms EXCEPT ![id] = NoVM] ELSE vms
       /\ pc' = AfterDeleteVM(ok, i, args.num)
       /\ i' = NextIndex(pc', i)
  /\ UNCHANGED <<zones, vnets, pools, args, template_name, start, prev, run>>

\* variant: the zone is removed together with the vnet
UndoVNet_dropzone ==
  /\ pc = "undo_vnet"
  /\ \E ok \in Outcomes :
       /\ budget' = Spend(ok)
       /\ calls' = Log("deleteVNet", 0, 0, <<>>, ok)
       /\ vnets' = IF ok THEN delete_vnet(vnets, VNet) ELSE vnets
       /\ zones' = IF ok THEN zones \ {Zone} ELSE zones
       /\ pc' = AfterDeleteVNet(ok)
  /\ UNCHANGED <<pools, vms, args, i, template_name, start, prev, run>>

UndoVNet ==
  /\ pc = "undo_vnet"
  /\ \E ok \in Outcomes :
       /\ budget' = Spend(ok)
       /\ calls' = Log("deleteVNet", 0, 0, <<>>, ok)
       /\ vnets' = IF ok THEN delete_vnet(vnets, VNet) ELSE vnets
       /\ pc' = AfterDeleteVNet(ok)
  /\ UNCHANGED <<zones, pools, vms, args, i, template_name, start, prev, run>>

UndoApply ==
  /\ pc = "undo_apply"
  /\ \E ok \in Outcomes :
       /\ budget' = Spend(ok)
       /\ calls' = Log("applyNetworkConfig", 0, 0, <<>>, ok)
       /\ pc' = AfterUndoApply(ok)
  /\ UNCHANGED <<remote, args, i, template_name, start, prev, run>>

UndoPool ==
  /\ pc = "undo_pool"
  /\ \E ok \in Outcomes :
       /\ budget' = Spend(ok)
       /\ calls' = Log("deletePool", 0, 0, <<>>, ok)
       /\ pools' = IF ok THEN pools \ {Pool} ELSE pools
       /\ pc' = AfterDeletePool(ok)
  /\ UNCHANGED <<zones, vnets, vms, args, i, template_name, start, prev, run>>

Next ==
  \/ StartRun
  \/ ZoneCheck \/ CreateZone \/ ZoneApply
  \/ VNetCheck \/ CreateVNet \/ VNetApply
  \/ PoolCheck \/ CreatePool
  \/ VMCheck
  \/ DeployName \/ DeployClone \/ DeployNet \/ DeployStart
  \/ UndoVM \/ UndoVNet \/ UndoApply \/ UndoPool

Spec == Init /\ [][Next]_vars

\* several runs in succession
NextRuns == Next \/ Rerun

SpecRuns == InitRuns /\ [][NextRuns]_vars

\* one run in which every API call returns: the script is sequential and
\* blocks on each call, so it takes its next step whenever it has one
SpecLive == Init /\ [][Next]_vars /\ WF_vars(Next)

TypeOK ==
  /\ zones \subseteq {Zone, OtherZone}
  /\ pools \subseteq {Pool}
  /\ DOMAIN vms = VMIds
  /\ i \in 0..MaxTemplates
  /\ run \in 0..MaxRuns
  /\ budget \in -1..MaxFaults
  /\ Len(calls) <= 9 + 4 * MaxTemplates

\* ======================================================== properties
\* the ids [starting_id, starting_id + len(templates)) of the current run
Requested == StartingId .. (StartingId + args.num - 1)

Collides == \E id \in Requested : start.vms[id].present

Issued(op) == \E k \in 1..Len(calls) : calls[k].op = op

OkAt(op) == \E k \in 1..Len(calls) : calls[k].op = op /\ calls[k].ok

IsPrefix(s, t) == Len(s) <= Len(t) /\ \A k \in 1..Len(s) : s[k] = t[k]

\* ---------------------------------------------------------------- C1
\* C1 (as claimed): a run in undo mode issues no zone/vnet/pool existence
\* query and no createZone, createVNet or createPool call; it issues only
\* delete and apply calls.
C1_UndoSkipsEnsure ==
  (run > 0 /\ args.undo) =>
    \A k \in 1..Len(calls) :
      calls[k].op \in {"deleteVM", "deleteVNet", "deletePool", "applyNetworkConfig"}

\* ---------------------------------------------------------------- C2
RoundTripDone ==
  /\ pc = "done" /\ args.undo /\ ~Failed(calls)
  /\ prev.ran /\ ~prev.undo /\ prev.pc = "done" /\ ~prev.failed /\ prev.fresh

VMsAbsent == \A id \in Requested : ~vms[id].present

\* C2 (as claimed): after a provisioning run from a state where zone, vnet,
\* pool and the requested VM ids are absent, followed by an undo run with the
\* same parameters, no call failing, the zone, the vnet, the pool and the VMs
\* are all absent again.
C2_RoundTripAllAbsent ==
  RoundTripDone =>
    /\ Zone \notin zones
    /\ \A v \in vnets : ~(v.vnet = VNet /\ v.zone = Zone)
    /\ Pool \notin pools
    /\ VMsAbsent

\* C2 (amended): after that round trip the vnet, the pool and the VMs are
\* absent again, and the zone created by the provisioning run is still there.
C2_RoundTripAmended ==
  RoundTripDone =>
    /\ Zone \in zones
    /\ \A v \in vnets : ~(v.vnet = VNet /\ v.zone = Zone)
    /\ Pool \notin pools
    /\ VMsAbsent

C2_Witness == RoundTripDone /\ args.num = MaxTemplates /\ Len(calls) = 6 + args.num

\* ---------------------------------------------------------------- C3
\* C3: in provisioning mode, if any requested id is already on the node, no
\* cloneVM, setVMNetworkDevice or startVM call is issued for any template;
\* the VM list is fetched once, and before the first clone.
C3_CollisionNoVMCalls ==
  (run > 0 /\ ~args.undo) =>
    /\ Collides =>
         \A k \in 1..Len(calls) :
           calls[k].op \notin {"cloneVM", "setVMNetworkDevice", "startVM"}
    /\ Count(calls, "listVMs") <= 1
    /\ \A k \in 1..Len(calls) :
         calls[k].op = "cloneVM" =>
           \E j \in 1..(k - 1) : calls[j].op = "listVMs" /\ calls[j].ok

C3_Witness ==
  /\ pc = "collision" /\ ~args.undo
  /\ \E id \in Requested : start.vms[id].present
  /\ \E id \in Requested : ~start.vms[id].present

\* ---------------------------------------------------------------- C4
\* C4 (as claimed): when a provisioning run hits a VM-id collision, nothing is
\* created: no zone, vnet, pool or VM that was absent at the start of the run.
C4_CollisionNothingCreated ==
  (run > 0 /\ ~args.undo /\ Collides) =>
    /\ zones \subseteq start.zones
    /\ vnets \subseteq start.vnets
    /\ pools \subseteq start.pools
    /\ \A id \in VMIds : vms[id].present => start.vms[id].present

\* C4 (amended): when a provisioning run hits a VM-id collision, no VM is
\* created or changed: the node's VMs are those of the start of the run (the
\* zone, the vnet and the pool may have been created by the ensure-steps).
C4_CollisionNoVMCreated ==
  (run > 0 /\ ~args.undo /\ Collides) => vms = start.vms

C4_Witness ==
  /\ pc = "collision" /\ vms = start.vms
  /\ Zone \notin start.zones /\ Zone \in zones
  /\ Pool \notin start.pools /\ Pool \in pools

\* ---------------------------------------------------------------- C5
IsClone(c) == c.op = "cloneVM"

Clones == SelectSeq(calls, IsClone)

PreflightPassed == ~args.undo /\ ~Collides /\ OkAt("listVMs")

\* C5: once the collision pre-flight has passed, whatever sub-step fails, the
\* clone calls are issued for template j at id starting_id + j in input order,
\* and the run ends with exactly len(templates) of them.
C5_PerVMIsolation ==
  (run > 0 /\ PreflightPassed) =>
    /\ Len(Clones) <= args.num
    /\ \A j \in 1..Len(Clones) :
         Clones[j].vmid = StartingId + j - 1 /\ Clones[j].tmpl = Templates[j]
    /\ pc \in Final => pc = "done" /\ Len(Clones) = args.num

C5_Witness ==
  /\ pc = "done" /\ PreflightPassed /\ args.num = MaxTemplates
  /\ Len(Clones) = args.num
  /\ ~Clones[1].ok
  /\ Clones[2].ok
  /\ \E k \in 1..Len(calls) : calls[k].op = "setVMNetworkDevice" /\ ~calls[k].ok

\* ---------------------------------------------------------------- C6
IsDelete(c) == c.op \in {"deleteVM", "deleteVNet", "deletePool"}

Deletes == SelectSeq(calls, IsDelete)

DeleteOps == [k \in 1..Len(Deletes) |-> <<Deletes[k].op, Deletes[k].vmid>>]

ExpectedDeletes ==
  [k \in 1..(args.num + 2) |->
     IF k <= args.num THEN <<"deleteVM", StartingId + k - 1>>
     ELSE IF k = args.num + 1 THEN <<"deleteVNet", 0>> ELSE <<"deletePool", 0>>]

\* C6: undo_changes issues one deleteVM per id of the range in ascending
\* order, then one deleteVNet, then one deletePool, whatever calls fail.
C6_TeardownOrder ==
  (run > 0 /\ args.undo) =>
    /\ IsPrefix(DeleteOps, ExpectedDeletes)
    /\ (pc \in Final /\ Issued("deleteVM")) => DeleteOps = ExpectedDeletes

C6_Witness ==
  /\ pc = "done" /\ args.undo /\ args.num = MaxTemplates
  /\ DeleteOps = ExpectedDeletes
  /\ \A k \in 1..Len(Deletes) : ~Deletes[k].ok

\* ---------------------------------------------------------------- C7
\* C7: a failed pool listing is taken as "pool absent": the run goes on and
\* its next call is createPool; a failed zone or vnet listing ends the run.
C7_LenientPoolCheck ==
  \A k \in 1..Len(calls) :
    /\ (calls[k].op = "listPools" /\ ~calls[k].ok) =>
         IF k < Len(calls) THEN calls[k + 1].op = "createPool" ELSE pc = "pool_create"
    /\ (calls[k].op \in {"listZones", "listVNets"} /\ ~calls[k].ok) =>
         k = Len(calls) /\ pc = "aborted"

C7_Witness ==
  /\ Pool \in start.pools
  /\ \E k \in 1..(Len(calls) - 1) :
       calls[k].op = "listPools" /\ ~calls[k].ok /\ calls[k + 1].op = "createPool"

Provisioned == run > 0 /\ ~args.undo /\ pc = "done" /\ ~Failed(calls)

\* C9: when no call fails and no id collides, template templates[j] is cloned
\* to id starting_id + j, with the name resolved from that template, in the
\* given pool, net0 bridged to the given vnet; the VMs created are exactly
\* those of the range.
C9_ProvisioningResult ==
  Provisioned =>
    /\ \A j \in 0..(args.num - 1) :
         LET vm == vms[StartingId + j] IN
           /\ vm.present /\ ~start.vms[StartingId + j].present
           /\ vm.template = Templates[j + 1]
           /\ vm.name \in {<<"tpl", Templates[j + 1]>>, <<"template-", Templates[j + 1]>>}
           /\ vm.pool = Pool
           /\ vm.net0 = <<"bridge=", VNet, ",model=virtio">>
           /\ vm.running = args.power_on
    /\ \A id \in VMIds \ Requested : vms[id] = start.vms[id]

C9_Witness ==
  /\ Provisioned /\ args.num = MaxTemplates /\ args.power_on
  /\ vms[StartingId + 1].name = <<"tpl", Templates[2]>>

\* --------------------------------------------------------------- C10
EnsureCreateAt(k) ==
  \/ calls[k].op \in {"createZone", "createVNet"}
  \/ /\ calls[k].op = "applyNetworkConfig"
     /\ k > 1
     /\ calls[k - 1].op \in {"createZone", "createVNet"}

\* C10: a failed createZone or createVNet, or a failed apply call following
\* either, is the last API call of the run, which is aborted.
C10_EnsureFailureFatal ==
  \A k \in 1..Len(calls) :
    (EnsureCreateAt(k) /\ ~calls[k].ok) => (k = Len(calls) /\ pc = "aborted")

C10_Witness ==
  /\ pc = "aborted" /\ Len(calls) = 6
  /\ calls[2].op = "createZone" /\ calls[2].ok
  /\ calls[5].op = "createVNet" /\ calls[5].ok
  /\ calls[6].op = "applyNetworkConfig" /\ ~calls[6].ok
\* --------------------------------------------------------------- C11
Deploying == pc \in {"deploy_name", "deploy_clone", "deploy_net", "deploy_start", "done"}

\* C11: once the VM list is fetched, the run goes on to cloning if and only if
\* no requested id is among the node's VM ids; one id in use ends it.
C11_AvailabilityDecision ==
  (run > 0 /\ ~args.undo) =>
    /\ pc = "collision" => (Collides /\ OkAt("listVMs"))
    /\ (OkAt("listVMs") /\ Collides) => pc = "collision"
    /\ (OkAt("listVMs") /\ ~Collides) => Deploying
    /\ Deploying => (OkAt("listVMs") /\ ~Collides)

C11_Witness ==
  /\ run > 0 /\ ~args.undo /\ args.num < MaxTemplates
  /\ start.vms[StartingId + args.num].present
  /\ pc = "deploy_name" /\ OkAt("listVMs")

\* --------------------------------------------------------------- C12
\* C12 (as claimed): in a provisioning run followed by an undo run, a VM that
\* was on the node before (not created by the script) is never deleted.
C12_UndoOnlyCreated ==
  (prev.ran /\ ~prev.undo /\ args.undo) =>
    \A id \in VMIds : start.vms[id] = ForeignVM => vms[id] = ForeignVM

\* --------------------------------------------------------------- C13
\* C13: the vnet counts as existing iff the listing has an entry with the
\* requested name and the requested zone; otherwise, a same-named vnet of
\* another zone included, createVNet(name, zone) is the next step.
C13_VNetPairMatch ==
  (run > 0 /\ OkAt("listVNets")) =>
    /\ (Issued("createVNet") \/ pc = "vnet_create")
         <=> [vnet |-> VNet, zone |-> Zone] \notin start.vnets
    /\ \A k \in 1..Len(calls) :
         calls[k].op = "createVNet" => calls[k].name = <<VNet, Zone>>

C13_Witness ==
  /\ start.vnets = {[vnet |-> VNet, zone |-> OtherZone]}
  /\ \E k \in 1..Len(calls) :
       calls[k].op = "createVNet" /\ calls[k].ok /\ calls[k].name = <<VNet, Zone>>
  /\ [vnet |-> VNet, zone |-> Zone] \in vnets

\* --------------------------------------------------------------- C14
\* C14: when getVMConfig fails for a template, the next call is the cloneVM of
\* that template with the name template-<id>, and after a successful clone
\* the network device is configured as usual.
C14_NameLookupNonFatal ==
  \A k \in 1..Len(calls) :
    (calls[k].op = "getVMConfig" /\ ~calls[k].ok) =>
      /\ IF k < Len(calls)
         THEN /\ calls[k + 1].op = "cloneVM"
              /\ calls[k + 1].tmpl = calls[k].tmpl
              /\ calls[k + 1].name = <<"template-", calls[k].tmpl>>
         ELSE pc = "deploy_clone" /\ template_name = <<"template-", calls[k].tmpl>>
      /\ (k + 1 < Len(calls) /\ calls[k + 1].ok) =>
           /\ calls[k + 2].op = "setVMNetworkDevice"
           /\ calls[k + 2].vmid = calls[k + 1].vmid

C14_Witness ==
  /\ pc = "done"
  /\ \E k \in 1..(Len(calls) - 2) :
       /\ calls[k].op = "getVMConfig" /\ ~calls[k].ok
       /\ calls[k + 1].op = "cloneVM" /\ calls[k + 1].ok
       /\ calls[k + 2].op = "setVMNetworkDevice" /\ calls[k + 2].ok
       /\ vms[calls[k + 1].vmid].name = <<"template-", calls[k].tmpl>>
\* --------------------------------------------------------------- C15
OkBefore(op, k) == \E j \in 1..(k - 1) : calls[j].op = op /\ calls[j].ok

\* a successful creation call, followed by a successful apply, before call k
AppliedBefore(op, k) ==
  \E j \in 1..(k - 2) :
    /\ calls[j].op = op /\ calls[j].ok
    /\ calls[j + 1].op = "applyNetworkConfig" /\ calls[j + 1].ok

ZoneStageDone(k) ==
  OkBefore("listZones", k) /\ (Zone \in start.zones \/ AppliedBefore("createZone", k))

VNetStageDone(k) ==
  /\ OkBefore("listVNets", k)
  /\ ([vnet |-> VNet, zone |-> Zone] \in start.vnets \/ AppliedBefore("createVNet", k))

PoolStageDone(k) ==
  \/ OkBefore("listPools", k) /\ Pool \in start.pools
  \/ OkBefore("createPool", k)

\* C15: createVNet is issued only after the zone stage is done (zone found, or
\* created and applied); the pool check only after the vnet stage is done
\* too; a clone only after the zone, vnet and pool stages and a successful
\* VM-id check.
C15_StageOrder ==
  \A k \in 1..Len(calls) :
    /\ calls[k].op = "createVNet" => (ZoneStageDone(k) /\ Zone \in zones)
    /\ calls[k].op = "listPools" => (ZoneStageDone(k) /\ VNetStageDone(k))
    /\ calls[k].op = "cloneVM" =>
         /\ ZoneStageDone(k) /\ VNetStageDone(k) /\ PoolStageDone(k)
         /\ OkBefore("listVMs", k)

C15_Witness ==
  /\ Zone \notin start.zones /\ start.vnets = {} /\ start.pools = {}
  /\ Issued("cloneVM")
  /\ Len(calls) >= 11

\* --------------------------------------------------------------- C16
\* C16: a VM's network device is configured only right after its successful
\* clone, and it is started only if power-on was requested and right after
\* its successful network configuration; a failed clone or network
\* configuration is the last call for that VM.
C16_SubStepOrder ==
  \A k \in 1..Len(calls) :
    /\ calls[k].op = "setVMNetworkDevice" =>
         /\ k > 1
         /\ calls[k - 1].op = "cloneVM" /\ calls[k - 1].ok
         /\ calls[k - 1].vmid = calls[k].vmid
    /\ calls[k].op = "startVM" =>
         /\ args.power_on
         /\ k > 1
         /\ calls[k - 1].op = "setVMNetworkDevice" /\ calls[k - 1].ok
         /\ calls[k - 1].vmid = calls[k].vmid
    /\ (calls[k].op \in {"cloneVM", "setVMNetworkDevice"} /\ ~calls[k].ok) =>
         IF k < Len(calls) THEN calls[k + 1].op = "getVMConfig"
         ELSE pc \in {"deploy_name", "done"}

C16_Witness ==
  /\ pc = "done" /\ args.power_on /\ args.num = MaxTemplates
  /\ \E k \in 1..Len(calls) : calls[k].op = "startVM" /\ calls[k].ok
  /\ \E k \in 1..Len(calls) : calls[k].op = "setVMNetworkDevice" /\ ~calls[k].ok

\* --------------------------------------------------------------- C17
InUndo(k) == \E j \in 1..(k - 1) : calls[j].op = "deleteVM"

\* C17: in undo_changes the apply call is issued exactly when deleteVNet has
\* succeeded, right after it and before deletePool; whether deleteVNet or the
\* apply call fails, deletePool is the next call.
C17_TeardownVNetStep ==
  \A k \in 1..Len(calls) :
    /\ (calls[k].op = "deleteVNet" /\ calls[k].ok) =>
         /\ IF k < Len(calls) THEN calls[k + 1].op = "applyNetworkConfig"
            ELSE pc = "undo_apply"
         /\ k + 1 = Len(calls) => pc = "undo_pool"
         /\ k + 1 < Len(calls) => calls[k + 2].op = "deletePool"
    /\ (calls[k].op = "deleteVNet" /\ ~calls[k].ok) =>
         IF k < Len(calls) THEN calls[k + 1].op = "deletePool" ELSE pc = "undo_pool"
    /\ (calls[k].op = "applyNetworkConfig" /\ InUndo(k)) =>
         calls[k - 1].op = "deleteVNet" /\ calls[k - 1].ok

C17_Witness ==
  /\ pc = "done" /\ Len(calls) >= 3
  /\ calls[Len(calls) - 2].op = "deleteVNet" /\ calls[Len(calls) - 2].ok
  /\ calls[Len(calls) - 1].op = "applyNetworkConfig" /\ ~calls[Len(calls) - 1].ok
  /\ calls[Len(calls)].op = "deletePool"
\* --------------------------------------------------------------- C18
\* C18: no step of a run in either mode removes a zone: a zone that exists,
\* at the start of the run or once created, exists from then on.
C18_ZoneFrame == [][zones \subseteq zones']_vars

C18_Witness ==
  /\ pc = "done" /\ args.undo
  /\ Zone \notin start.zones /\ Zone \in zones /\ OtherZone \in zones
  /\ \A k \in 1..Len(calls) : calls[k].ok

\* --------------------------------------------------------------- C19
\* C19: a failed createPool call, also one issued for an existing pool after a
\* failed pool listing, is the last API call of the run, which is aborted.
C19_PoolCreateFatal ==
  \A k \in 1..Len(calls) :
    (calls[k].op = "createPool" /\ ~calls[k].ok) => (k = Len(calls) /\ pc = "aborted")

C19_Witness ==
  /\ pc = "aborted" /\ Pool \in start.pools /\ Len(calls) >= 2
  /\ calls[Len(calls) - 1].op = "listPools" /\ ~calls[Len(calls) - 1].ok
  /\ calls[Len(calls)].op = "createPool" /\ ~calls[Len(calls)].ok

\* --------------------------------------------------------------- C20
\* no call is issued twice in a run (the apply call belongs to three steps)
NoRetry ==
  /\ \A j, k \in 1..Len(calls) :
       (j < k /\ calls[j].op = calls[k].op /\ calls[j].vmid = calls[k].vmid
              /\ calls[j].tmpl = calls[k].tmpl)
         => calls[k].op = "applyNetworkConfig"
  /\ Count(calls, "applyNetworkConfig") <= 3
  /\ Len(calls) <= 9 + 4 * args.num

\* C20: every API call returning, a run in either mode reaches its end
\* (completed, collision or aborted) after a bounded number of API calls, no
\* step being taken twice.
C20_Termination == []NoRetry /\ ((run > 0) ~> (pc \in Final))

C20_Witness ==
  /\ pc = "done" /\ args.num = MaxTemplates
  /\ Len(calls) = 9 + 4 * args.num
====
